---- MODULE Spec2Model ----
(***************************************************************************)
(* node_counter (src/src/main.rs): one GraphQL request for the node list,  *)
(* then a monthly cumulative report written to node_count.csv.             *)
(*                                                                         *)
(* The run is one sequential process.  Its position is pc:                 *)
(*   "send"   the request is about to be sent            (main.rs 25-34)   *)
(*   "parse"  the reply is about to be deserialized      (main.rs 35-37)   *)
(*   "create" File::create is about to run               (main.rs 39)      *)
(*   "header" the header line is about to be written     (main.rs 42-46)   *)
(*   "loop"   at the top of the body of the month loop   (main.rs 49-96)   *)
(*   "done"   main returned                                                *)
(*   "aborted" an expect()/unwrap()/arithmetic panic ended the process     *)
(***************************************************************************)
EXTENDS Integers, Sequences, FiniteSets, TLC

VARIABLES
    pc,       \* position of the process
    reply,    \* what the GraphQL endpoint answers to the one request
    nodes,    \* nodes.data.nodes: the parsed node list
    file0,    \* node_count.csv as it was before the run
    file,     \* node_count.csv now
    year,     \* loop variable of `for year in START_YEAR..START_YEAR + 10`
    month,    \* loop variable of `for month in 1..=12`
    now,      \* the wall clock, as Utc::now().timestamp() would read it
    failure   \* which panic ended the run ("" while none has)

vars == <<pc, reply, nodes, file0, file, year, month, now, failure>>

(***************************************************************************)
(* Program constants and model bounds                                      *)
(***************************************************************************)
START_YEAR == 2022

\* `START_YEAR..START_YEAR + 10`: ten years
YEAR_SPAN == 10

\* Width of the model's "u64".  TLC's integers are 32 bits wide, so the
\* 64-bit counters are scaled to U64Bits bits; every sum is reduced modulo
\* 2^U64Bits exactly where the program's is reduced modulo 2^64.
U64Bits == 4

\* Longest node list in a reply.
MaxNodes == 2

\* Longest JSON string handed to de_u64.
MaxStrLen == 3

RECURSIVE Pow2(_)
Pow2(k) == IF k = 0 THEN 1 ELSE 2 * Pow2(k - 1)

U64_MODULUS == Pow2(U64Bits)
U64_MAX == U64_MODULUS - 1
HALF == U64_MODULUS \div 2

(***************************************************************************)
(* Calendar: Utc.with_ymd_and_hms(year, month, 1, 0, 0, 0).timestamp()     *)
(***************************************************************************)
\* Days since 1970-01-01 of the proleptic Gregorian date y-m-d.
DaysFromCivil(y, m, d) ==
    LET yy  == IF m <= 2 THEN y - 1 ELSE y
        era == yy \div 400
        yoe == yy - era * 400
        mp  == IF m > 2 THEN m - 3 ELSE m + 9
        doy == (153 * mp + 2) \div 5 + d - 1
        doe == yoe * 365 + yoe \div 4 - yoe \div 100 + doy
    IN  era * 146097 + doe - 719468

\* `start`: Unix time of the first instant of (y, m) in UTC.
MonthStart(y, m) == DaysFromCivil(y, m, 1) * 86400

(***************************************************************************)
(* serde_json::Value, as de_u64 sees it                                    *)
(***************************************************************************)
\* A string is a sequence of characters; these are the characters used.
Chars == {"0", "1", "7", "+", "-", ".", "a"}

\* Value::String(s)
JString(s) == [tag |-> "String", s |-> s, kind |-> "none", n |-> 0]

\* Value::Number(num).  serde_json keeps a number as PosInt(u64), as
\* NegInt(i64) (value -n, n > 0) or as Float(f64) (here: n plus a fraction).
JNumber(kind, n) == [tag |-> "Number", s |-> <<>>, kind |-> kind, n |-> n]

\* Value::Null, Value::Bool, Value::Array, Value::Object
JOther(tag) == [tag |-> tag, s |-> <<>>, kind |-> "none", n |-> 0]

\* Result<u64, D::Error>
Ok(v) == [ok |-> TRUE, v |-> v, err |-> ""]
Err(msg) == [ok |-> FALSE, v |-> 0, err |-> msg]

DigitOf(c) == CASE c = "0" -> 0 [] c = "1" -> 1 [] c = "7" -> 7 [] OTHER -> -1

\* The digit loop of u64::from_str: checked multiply by 10, digit or
\* InvalidDigit, checked add.
RECURSIVE ParseDigits(_, _)
ParseDigits(digits, acc) ==
    IF digits = <<>> THEN Ok(acc)
    ELSE IF DigitOf(Head(digits)) < 0 THEN Err("InvalidDigit")
    ELSE IF acc * 10 > U64_MAX THEN Err("PosOverflow")
    ELSE IF acc * 10 + DigitOf(Head(digits)) > U64_MAX THEN Err("PosOverflow")
    ELSE ParseDigits(Tail(digits), acc * 10 + DigitOf(Head(digits)))

\* Faulty variant: no sign is accepted, every character must be a digit.
FromStrU64_NoSign(s) ==
    IF s = <<>> THEN Err("Empty") ELSE ParseDigits(s, 0)

\* `s.parse()` at type u64: empty is an error, a lone sign is an error, one
\* leading "+" is skipped, "-" is no sign of an unsigned type.
FromStrU64(s) ==
    IF s = <<>> THEN Err("Empty")
    ELSE IF Len(s) = 1 /\ Head(s) \in {"+", "-"} THEN Err("InvalidDigit")
    ELSE IF Head(s) = "+" THEN ParseDigits(Tail(s), 0)
    ELSE ParseDigits(s, 0)

\* `num.as_u64()`: Some(n) for PosInt(n), None otherwise.
AsU64(num) ==
    IF num.kind = "PosInt" THEN Ok(num.n) ELSE Err("Invalid number")

de_u64(value) ==
    CASE value.tag = "String" -> FromStrU64(value.s)
      [] value.tag = "Number" -> AsU64(value)
      [] OTHER -> Err("wrong type")

(***************************************************************************)
(* The reply and its deserialization into GraphQLResponse<NodeReply>       *)
(***************************************************************************)
\* A node object of the reply, its counters still JSON values.
RawNode(farm, created, cru, mru, sru, hru) ==
    [farmID |-> farm, created |-> created,
     resourcesTotal |-> [cru |-> cru, hru |-> hru, mru |-> mru, sru |-> sru]]

\* struct Resources, each field through de_u64
ResourcesOk(raw) ==
    /\ de_u64(raw.cru).ok
    /\ de_u64(raw.mru).ok
    /\ de_u64(raw.sru).ok
    /\ de_u64(raw.hru).ok

Resources(raw) ==
    [cru |-> de_u64(raw.cru).v, mru |-> de_u64(raw.mru).v,
     sru |-> de_u64(raw.sru).v, hru |-> de_u64(raw.hru).v]

\* struct Node
Node(raw) ==
    [farm_id |-> raw.farmID, created |-> raw.created,
     resources_total |-> Resources(raw.resourcesTotal)]

\* The reply: no reply at all (transport failure), a body that is not the
\* expected JSON document, or {data: {nodes: [...]}}.
NoReply == [status |-> "transport_error", nodes |-> <<>>]
BadBody == [status |-> "malformed", nodes |-> <<>>]
Body(raws) == [status |-> "json", nodes |-> raws]

\* `.json::<GraphQLResponse<NodeReply>>()` succeeds.
CanParse(r) ==
    /\ r.status = "json"
    /\ \A i \in 1..Len(r.nodes) : ResourcesOk(r.nodes[i].resourcesTotal)

NodeReply(r) == [i \in 1..Len(r.nodes) |-> Node(r.nodes[i])]

(***************************************************************************)
(* node_count.csv                                                          *)
(***************************************************************************)
\* One line of the file: its kind, the date column and the six number
\* columns (node count, farms, CRU, MRU, SRU, HRU), in the written order.
Line(kind, date, cols) == [kind |-> kind, date |-> date, cols |-> cols]

\* "date,node count,farms with nodes,total CRU,total MRU,total SRU,total HRU"
Header == Line("header", <<0, 0, 0>>, <<0, 0, 0, 0, 0, 0>>)

\* Whatever an earlier run or the user left in the file.
Stale == Line("stale", <<0, 0, 0>>, <<0, 0, 0, 0, 0, 0>>)

\* The beginning of a line whose write failed half way.
Torn == Line("torn", <<0, 0, 0>>, <<0, 0, 0, 0, 0, 0>>)

NoFile == [exists |-> FALSE, lines |-> <<>>]
FileOf(lines) == [exists |-> TRUE, lines |-> lines]

(***************************************************************************)
(* The aggregation of one month: filter, then fold                         *)
(***************************************************************************)
\* `.filter(|node| node.created < start)`
Qualifies(node, start) == node.created < start

\* `a += b` on u64: the sum as a release build stores it.
WrappingAdd(a, b) == (a + b) % U64_MODULUS

\* `a += b` on u64 overflows.
Overflows(a, b) == a + b > U64_MAX

\* The fold's initial accumulator.
FoldInit ==
    [node_count |-> 0, farms |-> {},
     resources |-> [cru |-> 0, mru |-> 0, sru |-> 0, hru |-> 0],
     overflowed |-> FALSE]

\* The closure of the fold, applied to one node that passed the filter.
\* node_count is an i32 (the literal 0 defaults to it): it cannot overflow
\* on the node lists considered here, the u64 counters can.
FoldStep(acc, node) ==
    [node_count |-> acc.node_count + 1,
     farms |-> acc.farms \cup {node.farm_id},
     resources |->
        [cru |-> WrappingAdd(acc.resources.cru, node.resources_total.cru),
         mru |-> WrappingAdd(acc.resources.mru, node.resources_total.mru),
         hru |-> WrappingAdd(acc.resources.hru, node.resources_total.hru),
         sru |-> WrappingAdd(acc.resources.sru, node.resources_total.sru)],
     overflowed |->
        \/ acc.overflowed
        \/ Overflows(acc.resources.cru, node.resources_total.cru)
        \/ Overflows(acc.resources.mru, node.resources_total.mru)
        \/ Overflows(acc.resources.hru, node.resources_total.hru)
        \/ Overflows(acc.resources.sru, node.resources_total.sru)]

RECURSIVE Fold(_, _, _)
Fold(ns, start, acc) ==
    IF ns = <<>> THEN acc
    ELSE IF Qualifies(Head(ns), start)
         THEN Fold(Tail(ns), start, FoldStep(acc, Head(ns)))
         ELSE Fold(Tail(ns), start, acc)

\* (node_count, farms, total_resources) of the month (y, m)
Aggregate(ns, y, m) == Fold(ns, MonthStart(y, m), FoldInit)

\* Faulty variant: the node count is printed in the farms column too.
Row_FarmsAsNodes(ns, y, m) ==
    LET a == Aggregate(ns, y, m)
    IN  Line("row", <<y, m, 1>>,
             <<a.node_count, a.node_count, a.resources.cru,
               a.resources.mru, a.resources.sru, a.resources.hru>>)

\* "{year}-{month}-1,{node_count},{farms.len()},{cru},{mru},{sru},{hru}"
Row(ns, y, m) ==
    LET a == Aggregate(ns, y, m)
    IN  Line("row", <<y, m, 1>>,
             <<a.node_count, Cardinality(a.farms), a.resources.cru,
               a.resources.mru, a.resources.sru, a.resources.hru>>)

(***************************************************************************)
(* The two loops                                                           *)
(***************************************************************************)
\* Faulty variant: a month that starts exactly now is taken to be future.
NotYet_Inclusive(t, start) == t <= start

\* `Utc::now().timestamp() < start`
NotYet(t, start) == t < start

\* The year loop moves on to year y + 1, or is over.
NextYear(y) ==
    IF y + 1 < START_YEAR + YEAR_SPAN
    THEN [pc |-> "loop", year |-> y + 1, month |-> 1]
    ELSE [pc |-> "done", year |-> y, month |-> 12]

\* Faulty variant: after December the month loop starts the same year again.
AfterRow_SameYear(y, m) ==
    IF m < 12 THEN [pc |-> "loop", year |-> y, month |-> m + 1]
    ELSE [pc |-> "loop", year |-> y, month |-> 1]

\* Where the loops stand after the body ran to its end for (y, m).
AfterRow(y, m) ==
    IF m < 12 THEN [pc |-> "loop", year |-> y, month |-> m + 1]
    ELSE NextYear(y)

\* Where the loops stand after `break` in year y: the month loop is left,
\* the year loop is not.
AfterBreak(y) == NextYear(y)

(***************************************************************************)
(* Inputs: replies, clock readings, earlier file contents                  *)
(***************************************************************************)
PosInt(n) == JNumber("PosInt", n)

\* Created one second before 2022-01-01; counters in both wire forms.
NodeA == RawNode(1, MonthStart(START_YEAR, 1) - 1,
                 JString(<<"1">>), PosInt(2), PosInt(3), JString(<<"+", "7">>))

\* Created at the first instant of 2022-02; half of the u64 range of CRU.
NodeB == RawNode(1, MonthStart(START_YEAR, 2),
                 PosInt(HALF), JString(<<"1">>), PosInt(0), PosInt(0))

\* Created one second into 2023-01, on another farm; the other half.
NodeC == RawNode(2, MonthStart(START_YEAR + 1, 1) + 1,
                 PosInt(HALF), PosInt(1), JString(<<"0", "1">>), PosInt(0))

\* One counter is no number.
NodeBad == RawNode(3, MonthStart(START_YEAR, 1) - 1,
                   JString(<<"a">>), PosInt(1), PosInt(1), PosInt(1))

NodePool == {NodeA, NodeB, NodeC, NodeBad}

SeqsUpTo(S, k) == UNION {[1..j -> S] : j \in 0..k}

Replies == {NoReply, BadBody} \cup {Body(b) : b \in SeqsUpTo(NodePool, MaxNodes)}

\* Clock readings: before the first month, exactly the start of 2022-03,
\* and after the last month of the ten years.
ClockValues ==
    {MonthStart(START_YEAR, 1) - 1,
     MonthStart(START_YEAR, 3),
     MonthStart(START_YEAR + YEAR_SPAN, 1)}

EarlierFiles == {NoFile, FileOf(<<Stale>>)}

\* JSON values handed to de_u64.
Strings == SeqsUpTo(Chars, MaxStrLen)

Values ==
    {JString(s) : s \in Strings}
    \cup {PosInt(n) : n \in 0..U64_MAX}
    \cup {JNumber("NegInt", n) : n \in {1, 5}}
    \cup {JNumber("Float", n) : n \in {0, 12}}
    \cup {JOther(t) : t \in {"Null", "Bool", "Array", "Object"}}

Fields == {"cru", "mru", "sru", "hru"}

\* A node whose counters are all JSON numbers.
NodePlain == RawNode(1, MonthStart(START_YEAR, 1) - 1,
                     PosInt(1), PosInt(2), PosInt(3), PosInt(4))

\* A well-formed node whose counter f is the value v.
ProbeNode(f, v) ==
    [NodePlain EXCEPT !.resourcesTotal = [NodePlain.resourcesTotal EXCEPT ![f] = v]]

\* Node lists of well-formed nodes but for one counter of one node.
ProbeReplies ==
    {Body([i \in 1..len |-> IF i = at THEN ProbeNode(f, v) ELSE NodePlain]) :
        <<len, at, f, v>> \in
            {q \in (1..MaxNodes) \X (1..MaxNodes) \X Fields \X Values : q[2] <= q[1]}}

(***************************************************************************)
(* The run                                                                 *)
(***************************************************************************)
Init ==
    /\ pc = "send"
    /\ reply \in Replies
    /\ nodes = <<>>
    /\ file0 \in EarlierFiles
    /\ file = file0
    /\ year = START_YEAR
    /\ month = 1
    /\ now \in ClockValues
    /\ failure = ""

\* The messages of the panics that end a run.
SendPanic == "Can send a graphql request and get a reply"
ParsePanic == "Can parse response"
CreatePanic == "Can create file"
WritePanic == "called Result::unwrap() on an Err value"
OverflowPanic == "attempt to add with overflow"

\* A panic: the process ends, whatever is in the file stays there.
Abort(why) ==
    /\ pc' = "aborted"
    /\ failure' = why

\* Faulty variant: the file is created before the request is sent.
SendFail_FileFirst ==
    /\ pc = "send"
    /\ reply.status = "transport_error"
    /\ Abort(SendPanic)
    /\ file' = FileOf(<<>>)
    /\ UNCHANGED <<reply, nodes, file0, year, month, now>>

\* `.send().await.expect(..)` panics.
SendFail ==
    /\ pc = "send"
    /\ reply.status = "transport_error"
    /\ Abort(SendPanic)
    /\ UNCHANGED <<reply, nodes, file0, file, year, month, now>>

\* `.send().await` returns a response.
SendOk ==
    /\ pc = "send"
    /\ reply.status # "transport_error"
    /\ pc' = "parse"
    /\ UNCHANGED <<reply, nodes, file0, file, year, month, now, failure>>

\* `.json::<..>().await.expect(..)` panics.
ParseFail ==
    /\ pc = "parse"
    /\ ~CanParse(reply)
    /\ Abort(ParsePanic)
    /\ UNCHANGED <<reply, nodes, file0, file, year, month, now>>

\* `let nodes = ...`
ParseOk ==
    /\ pc = "parse"
    /\ CanParse(reply)
    /\ nodes' = NodeReply(reply)
    /\ pc' = "create"
    /\ UNCHANGED <<reply, file0, file, year, month, now, failure>>

\* `File::create(..).expect(..)` panics; nothing was created or truncated.
CreateFail ==
    /\ pc = "create"
    /\ Abort(CreatePanic)
    /\ UNCHANGED <<reply, nodes, file0, file, year, month, now>>

\* `File::create("node_count.csv")`: the file exists and is empty.
CreateOk ==
    /\ pc = "create"
    /\ file' = FileOf(<<>>)
    /\ pc' = "header"
    /\ UNCHANGED <<reply, nodes, file0, year, month, now, failure>>

\* A failed writeln!: nothing of the line, or its beginning, reached the file.
FailedWrite ==
    /\ \/ file' = file
       \/ file' = FileOf(Append(file.lines, Torn))
    /\ Abort(WritePanic)

\* The header is written and the year loop is entered.
WriteHeaderOk ==
    /\ pc = "header"
    /\ file' = FileOf(Append(file.lines, Header))
    /\ pc' = "loop"
    /\ year' = START_YEAR
    /\ month' = 1
    /\ UNCHANGED <<reply, nodes, file0, now, failure>>

\* `writeln!(file, "date,...").unwrap()` panics.
WriteHeaderFail ==
    /\ pc = "header"
    /\ FailedWrite
    /\ UNCHANGED <<reply, nodes, file0, year, month, now>>

\* `if Utc::now().timestamp() < start { break; }`
MonthBreak ==
    /\ pc = "loop"
    /\ NotYet(now, MonthStart(year, month))
    /\ pc' = AfterBreak(year).pc
    /\ year' = AfterBreak(year).year
    /\ month' = AfterBreak(year).month
    /\ UNCHANGED <<reply, nodes, file0, file, now, failure>>

\* The month is aggregated and its row written.  A build without overflow
\* checks gets here with wrapped sums too.
MonthRow ==
    /\ pc = "loop"
    /\ ~NotYet(now, MonthStart(year, month))
    /\ file' = FileOf(Append(file.lines, Row(nodes, year, month)))
    /\ pc' = AfterRow(year, month).pc
    /\ year' = AfterRow(year, month).year
    /\ month' = AfterRow(year, month).month
    /\ UNCHANGED <<reply, nodes, file0, now, failure>>

\* A build with overflow checks panics in the fold on `+=`.
MonthOverflow ==
    /\ pc = "loop"
    /\ ~NotYet(now, MonthStart(year, month))
    /\ Aggregate(nodes, year, month).overflowed
    /\ Abort(OverflowPanic)
    /\ UNCHANGED <<reply, nodes, file0, file, year, month, now>>

\* `writeln!(file, "{year}-{month}-1,...").unwrap()` panics.
MonthWriteFail ==
    /\ pc = "loop"
    /\ ~NotYet(now, MonthStart(year, month))
    /\ FailedWrite
    /\ UNCHANGED <<reply, nodes, file0, year, month, now>>

\* The wall clock moves on while the process runs; every test of the loop
\* reads it anew.
Tick ==
    /\ pc \notin {"done", "aborted"}
    /\ \E t \in ClockValues : t > now /\ now' = t
    /\ UNCHANGED <<pc, reply, nodes, file0, file, year, month, failure>>

Fetch == SendFail \/ SendOk \/ ParseFail \/ ParseOk

Report ==
    \/ CreateFail \/ CreateOk
    \/ WriteHeaderOk \/ WriteHeaderFail
    \/ MonthBreak \/ MonthRow \/ MonthOverflow \/ MonthWriteFail

Next == Fetch \/ Report \/ Tick

Spec == Init /\ [][Next]_vars

\* The same run while the clock stands still.
NextFrozen == Fetch \/ Report

SpecFrozen == Init /\ [][NextFrozen]_vars

\* The Fetcher alone, on node lists that probe de_u64.
InitParse ==
    /\ pc = "send"
    /\ reply \in ProbeReplies
    /\ nodes = <<>>
    /\ file0 = NoFile
    /\ file = file0
    /\ year = START_YEAR
    /\ month = 1
    /\ now = MonthStart(START_YEAR, 3)
    /\ failure = ""

NextParse == SendOk \/ ParseFail \/ ParseOk

SpecParse == InitParse /\ [][NextParse]_vars

(***************************************************************************)
(* Vocabulary of the properties                                            *)
(***************************************************************************)
\* The positions of the data rows in the file.
RowIndexes == {k \in 1..Len(file.lines) : file.lines[k].kind = "row"}

RowYear(k) == file.lines[k].date[1]
RowMonth(k) == file.lines[k].date[2]
Col(k, c) == file.lines[k].cols[c]

\* Chronological order of two rows.
Before(j, k) ==
    \/ RowYear(j) < RowYear(k)
    \/ RowYear(j) = RowYear(k) /\ RowMonth(j) < RowMonth(k)

\* The nodes created strictly before the first instant of (y, m), found
\* without the fold.
Window(y, m) == {i \in 1..Len(nodes) : nodes[i].created < MonthStart(y, m)}

\* The sum of one counter over a set of nodes, in unbounded integers.
RECURSIVE TrueSum(_, _)
TrueSum(S, f) ==
    IF S = {} THEN 0
    ELSE LET i == CHOOSE x \in S : TRUE
         IN  nodes[i].resources_total[f] + TrueSum(S \ {i}, f)

FarmsOf(S) == {nodes[i].farm_id : i \in S}

\* The months that have started at time t, among the ten years.
Qualifying(t) ==
    {ym \in (START_YEAR..START_YEAR + 9) \X (1..12) : MonthStart(ym[1], ym[2]) <= t}

RowDates == {<<RowYear(k), RowMonth(k)>> : k \in RowIndexes}

\* The k-th month of the ten years.
MonthNo(k) == <<START_YEAR + (k - 1) \div 12, ((k - 1) % 12) + 1>>

\* Header and one row for each month that has started at time t.
CompleteReport(t) ==
    [k \in 1..(Cardinality(Qualifying(t)) + 1) |->
        IF k = 1 THEN Header
        ELSE Row(nodes, MonthNo(k - 1)[1], MonthNo(k - 1)[2])]

(***************************************************************************)
(* C1  Every row holds the number of, and the sums of cru, mru, sru and    *)
(* hru over, exactly the nodes created strictly before the first instant   *)
(* of its month, each sum in its own column.  (Fails: the sums wrap.)      *)
(***************************************************************************)
C1_RowIsWindowSum ==
    \A k \in RowIndexes :
        LET W == Window(RowYear(k), RowMonth(k))
        IN  /\ Col(k, 1) = Cardinality(W)
            /\ Col(k, 3) = TrueSum(W, "cru")
            /\ Col(k, 4) = TrueSum(W, "mru")
            /\ Col(k, 5) = TrueSum(W, "sru")
            /\ Col(k, 6) = TrueSum(W, "hru")

\* What does hold of every row: the count is exact, and each column is the
\* window's sum reduced modulo the width of u64.
RowIsWindowSumModuloWidth ==
    \A k \in RowIndexes :
        LET W == Window(RowYear(k), RowMonth(k))
        IN  /\ Col(k, 1) = Cardinality(W)
            /\ Col(k, 3) = TrueSum(W, "cru") % U64_MODULUS
            /\ Col(k, 4) = TrueSum(W, "mru") % U64_MODULUS
            /\ Col(k, 5) = TrueSum(W, "sru") % U64_MODULUS
            /\ Col(k, 6) = TrueSum(W, "hru") % U64_MODULUS

(***************************************************************************)
(* C2  While the clock stands still, only months of the ten years that     *)
(* have started (month_start <= now) get a row, never more than 120 rows;  *)
(* and a run that ends normally has written exactly one row for each of    *)
(* them, the month that starts exactly now included.                       *)
(***************************************************************************)
C2_RowsIffStarted ==
    /\ RowDates \subseteq Qualifying(now)
    /\ Cardinality(RowIndexes) <= 120
    /\ pc = "done" =>
        /\ RowDates = Qualifying(now)
        /\ Cardinality(RowIndexes) = Cardinality(Qualifying(now))

\* A finished run whose clock read exactly the start of 2022-03: three rows.
C2_Witness ==
    /\ pc = "done"
    /\ now = MonthStart(START_YEAR, 3)
    /\ RowDates = {<<START_YEAR, 1>>, <<START_YEAR, 2>>, <<START_YEAR, 3>>}

(***************************************************************************)
(* C3  Once a month is found to start after now, the whole iteration is    *)
(* over: the step that finds it ends both loops.  (Fails: `break` leaves   *)
(* the month loop only, and January of the next year is tried.)            *)
(***************************************************************************)
C3_BreakEndsIteration ==
    [][(pc = "loop" /\ now < MonthStart(year, month) /\ now' = now)
            => pc' = "done"]_vars

(***************************************************************************)
(* C4  Of two rows, the chronologically earlier one has the smaller or     *)
(* equal node count, farm count and resource totals.  (Fails: a wrapped    *)
(* total is smaller than the one before it.)                               *)
(***************************************************************************)
C4_Monotone ==
    \A j, k \in RowIndexes :
        Before(j, k) => \A c \in 1..6 : Col(j, c) <= Col(k, c)

\* What does hold: the two counts never decrease.
CountsMonotone ==
    \A j, k \in RowIndexes :
        Before(j, k) => \A c \in 1..2 : Col(j, c) <= Col(k, c)

(***************************************************************************)
(* C5  A run that aborts leaves the file as it was before the run, or      *)
(* holding the complete report.  (Fails: a panic after File::create        *)
(* leaves the truncated or half-written file.)                             *)
(***************************************************************************)
C5_NoPartialOutput ==
    pc = "aborted" => (file = file0 \/ file = FileOf(CompleteReport(now)))

(***************************************************************************)
(* C6  In every row the farm count is the number of distinct farm ids      *)
(* among the nodes created strictly before the month's start; it lies      *)
(* between 0 and the node count and is 0 exactly when the node count is.   *)
(***************************************************************************)
C6_DistinctFarms ==
    \A k \in RowIndexes :
        /\ Col(k, 2) = Cardinality(FarmsOf(Window(RowYear(k), RowMonth(k))))
        /\ 0 <= Col(k, 2)
        /\ Col(k, 2) <= Col(k, 1)
        /\ (Col(k, 2) = 0) <=> (Col(k, 1) = 0)

\* A row that counts two qualifying nodes of one farm as one farm.
C6_Witness ==
    \E k \in RowIndexes :
        /\ Col(k, 1) = 2
        /\ Col(k, 2) = 1

(***************************************************************************)
(* C7 (as claimed)  de_u64 returns a value for a string of decimal digits  *)
(* and for a non-negative integer number only, and an error for every      *)
(* other input.  (Fails: "+7" gives 7.)                                    *)
(***************************************************************************)
IsDigit(c) == c \in {"0", "1", "7"}

AllDigits(s) == Len(s) > 0 /\ \A i \in 1..Len(s) : IsDigit(s[i])

RECURSIVE Pow10(_)
Pow10(k) == IF k = 0 THEN 1 ELSE 10 * Pow10(k - 1)

\* The number a digit string denotes: digit i weighs 10^(Len - i).
RECURSIVE WeightedSum(_, _)
WeightedSum(s, i) ==
    IF i > Len(s) THEN 0
    ELSE DigitOf(s[i]) * Pow10(Len(s) - i) + WeightedSum(s, i + 1)

DecimalValue(s) == WeightedSum(s, 1)

\* The counter values of the reply, each with the place it stands at.
Counters == {<<i, f>> : i \in 1..Len(reply.nodes), f \in Fields}
RawCounter(c) == reply.nodes[c[1]].resourcesTotal[c[2]]

DigitsOrNumber(v) ==
    \/ v.tag = "String" /\ AllDigits(v.s)
    \/ v.tag = "Number" /\ v.kind = "PosInt"

C7_OnlyDigitsOrNumbers ==
    pc = "create" => \A c \in Counters : DigitsOrNumber(RawCounter(c))

(***************************************************************************)
(* C7 (amended)  de_u64 returns a value exactly for a string of decimal    *)
(* digits with at most one "+" before them whose number fits a u64, and    *)
(* for a number held as a non-negative integer; the value is that number,  *)
(* the same for both forms.  Every other input is an error, and an error   *)
(* on one counter of one node fails the whole fetch: no node list, no      *)
(* file.                                                                   *)
(***************************************************************************)
Unsigned(s) == IF Len(s) > 0 /\ s[1] = "+" THEN Tail(s) ELSE s

Accepted(v) ==
    \/ /\ v.tag = "String"
       /\ AllDigits(Unsigned(v.s))
       /\ DecimalValue(Unsigned(v.s)) <= U64_MAX
    \/ v.tag = "Number" /\ v.kind = "PosInt"

Denoted(v) == IF v.tag = "String" THEN DecimalValue(Unsigned(v.s)) ELSE v.n

C7_AcceptsSignedDigitsAndNumbers ==
    /\ pc = "create" =>
          \A c \in Counters :
              /\ Accepted(RawCounter(c))
              /\ nodes[c[1]].resources_total[c[2]] = Denoted(RawCounter(c))
    /\ pc = "aborted" =>
          /\ \E c \in Counters : ~Accepted(RawCounter(c))
          /\ failure = ParsePanic
          /\ nodes = <<>>
          /\ file = file0

\* The string "+7" was parsed into the counter 7.
C7_Witness ==
    /\ pc = "create"
    /\ \E c \in Counters :
          /\ RawCounter(c) = JString(<<"+", "7">>)
          /\ nodes[c[1]].resources_total[c[2]] = 7

(***************************************************************************)
(* C8  Once the header is written, the file holds the header first and     *)
(* only rows after it, each row of a later month than the row before it;   *)
(* this holds in particular of the file of a run that ended normally.      *)
(***************************************************************************)
C8_HeaderThenAscendingRows ==
    pc \in {"loop", "done"} =>
        /\ Len(file.lines) >= 1
        /\ file.lines[1] = Header
        /\ \A k \in 2..Len(file.lines) : file.lines[k].kind = "row"
        /\ \A k \in 3..Len(file.lines) : Before(k - 1, k)

\* A finished report with rows of more than one year.
C8_Witness ==
    /\ pc = "done"
    /\ Len(file.lines) = 121
    /\ RowYear(2) = START_YEAR
    /\ RowYear(121) = START_YEAR + 9

(***************************************************************************)
(* C9  The file is touched only after the request succeeded and the whole  *)
(* reply was parsed into the node list, so a failed request or parse       *)
(* leaves it as it was; and the node list never changes after the parse.   *)
(***************************************************************************)
C9_FetchBeforeReport ==
    [][/\ file' # file =>
            /\ pc \in {"create", "header", "loop"}
            /\ CanParse(reply)
            /\ nodes = NodeReply(reply)
       /\ pc \notin {"send", "parse"} => nodes' = nodes]_vars

\* A reply that could not be parsed, and the earlier file still in place.
C9_Witness ==
    /\ pc = "aborted"
    /\ failure = ParsePanic
    /\ reply.status = "json"
    /\ file0 = FileOf(<<Stale>>)
    /\ file = file0

(***************************************************************************)
(* C10  No sum of counters overflows: every total in the file is the true  *)
(* sum, and no run is ended by the summation.  (Fails: two counters of     *)
(* half the range sum to 0, or panic after the file was created.)          *)
(***************************************************************************)
C10_NoOverflow ==
    /\ failure # OverflowPanic
    /\ \A k \in RowIndexes :
          \A c \in {<<3, "cru">>, <<4, "mru">>, <<5, "sru">>, <<6, "hru">>} :
              Col(k, c[1]) = TrueSum(Window(RowYear(k), RowMonth(k)), c[2])

====
